---- MODULE Spec2Model ----
(***************************************************************************)
(* Model of the Windows shell of tamshai-enterprise-ai:                    *)
(*   - single-instance arbitration by a named mutex (WinMain),             *)
(*   - deep-link extraction (GetProtocolUrlFromActivation + command line), *)
(*   - the one-slot hand-off file (WriteUrlToIpcFile / ReadUrlFromIpcFile / *)
(*     ClearStaleIpcFile),                                                 *)
(*   - the pending initial URL (DeepLinkModule),                           *)
(*   - the dispatch of WebAuthenticationBroker calls (WebAuthModule).      *)
(*                                                                         *)
(* Text is a sequence of character codes.  Wide text (std::wstring) holds  *)
(* UTF-16 code units, narrow text (std::string, file bytes) holds 0..255.  *)
(***************************************************************************)
EXTENDS Integers, Sequences, FiniteSets, TLC

(* ------------------------------ bounds -------------------------------- *)

\* number of process launches considered
NumProcs == 3

\* number of calls made by the sequential caller of SpecApi
MaxCalls == 4

\* number of WebAuthModule calls considered in SpecAuth
MaxRequests == 3

Procs == 1..NumProcs

(* ------------------------------- text --------------------------------- *)

\* the literal "com.tamshai.ai://"
Scheme == <<99, 111, 109, 46, 116, 97, 109, 115, 104, 97, 105, 46, 97, 105, 58, 47, 47>>

\* "com.tamshai.ai://a" and "com.tamshai.ai://b"
UrlA == Scheme \o <<97>>
UrlB == Scheme \o <<98>>
\* "com.tamshai.ai://" followed by U+0416, a character outside 0..255
UrlWide == Scheme \o <<1046>>
\* "com.tamshai.ai://a", a line feed, "b"
UrlTwoLines == Scheme \o <<97, 10, 98>>

Empty == <<>>

SingleLine(s) == \A i \in 1..Len(s) : s[i] # 10

RECURSIVE WofstreamEncode(_)
\* What `file << url` leaves in the file: a wofstream converts each wchar_t
\* with the codecvt facet of the default "C" locale, which fails on a
\* character above 255 (the stream goes bad and nothing more is written);
\* the stream is in text mode, so a line feed is stored as CR LF.
WofstreamEncode(ws) ==
  IF ws = <<>> THEN <<>>
  ELSE IF Head(ws) > 255 THEN <<>>
  ELSE IF Head(ws) = 10 THEN <<13, 10>> \o WofstreamEncode(Tail(ws))
  ELSE <<Head(ws)>> \o WofstreamEncode(Tail(ws))

RECURSIVE WifstreamDecode(_)
\* What a text-mode wifstream delivers for the bytes of the file: CR LF is
\* one line feed, every other byte widens to the same code.
WifstreamDecode(bs) ==
  IF bs = <<>> THEN <<>>
  ELSE IF Len(bs) >= 2 /\ bs[1] = 13 /\ bs[2] = 10
       THEN <<10>> \o WifstreamDecode(Tail(Tail(bs)))
  ELSE <<Head(bs)>> \o WifstreamDecode(Tail(bs))

RECURSIVE GetLine(_)
\* std::getline: the characters before the first line feed
GetLine(ws) ==
  IF ws = <<>> THEN <<>>
  ELSE IF Head(ws) = 10 THEN <<>>
  ELSE <<Head(ws)>> \o GetLine(Tail(ws))

(* ------------------------------ state --------------------------------- *)

VARIABLES
  ipcFile,          \* the file %TEMP%\tamshai_ai_callback_url.txt
  ipcOpen,          \* the processes holding an open stream on it
  g_initialUrl,     \* per process: the pending initial URL
  callLog,          \* SpecApi: the calls made so far, with what they returned
  activation,       \* SpecExtract: what the AppLifecycle API reports for the launch
  commandLine,      \* SpecExtract: WinMain's commandLine argument
  extracted,        \* SpecExtract: protocolUrl once WinMain has computed it
  pc,               \* per process: where it is in WinMain, or what became of it
  protocolUrl,      \* per process: WinMain's protocolUrl
  hMutex,           \* per process: it holds an open handle on the named mutex
  isFirstInstance,  \* per process: WinMain's isFirstInstance
  poll,             \* per process: the checkForCallbackUrl call in progress
  delivered,        \* history: how often the message of each writer was returned
  staleAtStart,     \* history: the writer of the message in the file at start-up
  gotStale,         \* history: the process was handed that message
  g_mainDispatcherQueue,  \* SpecAuth: the captured DispatcherQueue, by owning thread
  uiDispatcher,     \* SpecAuth: m_reactContext.UIDispatcher() is not null
  appStarted,       \* SpecAuth: WinMain has reached Start()
  uiQueue,          \* SpecAuth: the tasks waiting on the main thread's queue
  requests,         \* SpecAuth: the WebAuthModule calls made, with their promises
  brokerLog,        \* SpecAuth history: each AuthenticateAsync call and its thread
  windowContent,    \* SpecUwp: Window::Current().Content() is not null
  uwpFault          \* SpecUwp: an exception has left App::OnActivated

ipcVars == <<ipcFile, ipcOpen>>
exVars == <<activation, commandLine, extracted>>
procVars == <<pc, protocolUrl, hMutex, isFirstInstance, poll>>
histVars == <<delivered, staleAtStart, gotStale>>
authVars == <<g_mainDispatcherQueue, uiDispatcher, appStarted, uiQueue, requests, brokerLog>>
uwpVars == <<windowContent, uwpFault>>
vars == <<ipcFile, ipcOpen, g_initialUrl, callLog, activation, commandLine, extracted,
          pc, protocolUrl, hMutex, isFirstInstance, poll,
          delivered, staleAtStart, gotStale,
          g_mainDispatcherQueue, uiDispatcher, appStarted, uiQueue, requests, brokerLog,
          windowContent, uwpFault>>

(* ------------------------- the hand-off file --------------------------- *)

\* writer: which write stored the bytes (history, 0 = none)
AbsentFile == [exists |-> FALSE, bytes |-> <<>>, writer |-> 0]

\* std::wofstream file(ipcPath, std::ios::trunc), when it opens
WofstreamOpenTrunc(file, w) == [exists |-> TRUE, bytes |-> <<>>, writer |-> w]

\* An open that empties the file even when it fails.
WofstreamOpen_TruncatesAnyway(file, w, opened) == WofstreamOpenTrunc(file, w)

\* std::wofstream file(ipcPath, std::ios::trunc): a stream that does not
\* open leaves the file as it is
WofstreamOpen(file, w, opened) == IF opened THEN WofstreamOpenTrunc(file, w) ELSE file

\* bytes written at offset 0 of a file that holds old
Overlay(old, new) == new \o SubSeq(old, Len(new) + 1, Len(old))

\* file << url; file.close(): the buffered text reaches the file, at the
\* stream's own offset 0, whatever another stream stored meanwhile
WofstreamWriteClose(file, url, w) ==
  [exists |-> TRUE, bytes |-> Overlay(file.bytes, WofstreamEncode(url)), writer |-> w]

\* std::getline(file, url) on an open wifstream
WifstreamGetLine(file) == GetLine(WifstreamDecode(file.bytes))

\* DeleteFileW: the CRT opens streams without FILE_SHARE_DELETE, so the call
\* fails while any stream on the file is open
DeleteFileW(file, open) == IF open = {} THEN AbsentFile ELSE file

\* WriteUrlToIpcFile run as a whole; opened: whether the stream opened
WriteUrlToIpcFile(file, url, opened, w) ==
  IF opened THEN WofstreamWriteClose(WofstreamOpen(file, w, opened), url, w)
  ELSE WofstreamOpen(file, w, opened)

\* std::wifstream file(ipcPath); file.is_open(): the file exists and the
\* system lets the caller open it
WifstreamOpen(file, readable) == file.exists /\ readable

\* A delete placed after the if block instead of inside it.
ReadUrlFromIpcFile_DeletesAnyway(file, others, readable) ==
  IF WifstreamOpen(file, readable)
  THEN [url |-> WifstreamGetLine(file), file |-> DeleteFileW(file, others)]
  ELSE [url |-> <<>>, file |-> DeleteFileW(file, others)]

\* ReadUrlFromIpcFile run as a whole; others: streams other processes hold
ReadUrlFromIpcFile(file, others, readable) ==
  IF WifstreamOpen(file, readable)
  THEN [url |-> WifstreamGetLine(file), file |-> DeleteFileW(file, others)]
  ELSE [url |-> <<>>, file |-> file]

\* A clear that deletes nothing.
ClearStaleIpcFile_KeepsFile(file, open) == file

\* ClearStaleIpcFile
ClearStaleIpcFile(file, open) == DeleteFileW(file, open)

(* ------------------- processes: state before any launch ---------------- *)

NoPoll == [at |-> "none", url |-> Empty, src |-> 0]

ProcIdle ==
  /\ pc = [p \in Procs |-> "idle"]
  /\ protocolUrl = [p \in Procs |-> Empty]
  /\ hMutex = [p \in Procs |-> FALSE]
  /\ isFirstInstance = [p \in Procs |-> FALSE]
  /\ poll = [p \in Procs |-> NoPoll]
  /\ delivered = [p \in Procs |-> 0]
  /\ staleAtStart = [p \in Procs |-> 0]
  /\ gotStale = [p \in Procs |-> FALSE]

(* ---------------- the UWP application: state before start -------------- *)

UwpIdle ==
  /\ windowContent = FALSE
  /\ uwpFault = FALSE

(* ------------------- WebAuthModule: state before start ----------------- *)

AuthIdle ==
  /\ g_mainDispatcherQueue = "nullptr"
  /\ uiDispatcher = FALSE
  /\ appStarted = FALSE
  /\ uiQueue = <<>>
  /\ requests = <<>>
  /\ brokerLog = <<>>

(* ----------------------- deep-link extraction -------------------------- *)

\* the launch as the AppLifecycle API reports it: each field is what one
\* call of GetProtocolUrlFromActivation finds; throws: one of the calls
\* throws instead
NoUri == [null |-> TRUE, abs |-> Empty]
Uri(text) == [null |-> FALSE, abs |-> text]

Activation(throws, appInstance, args, kindProtocol, data, isProtocolArgs, uri) ==
  [throws |-> throws, appInstance |-> appInstance, args |-> args,
   kindProtocol |-> kindProtocol, data |-> data,
   isProtocolArgs |-> isProtocolArgs, uri |-> uri]

\* an ordinary launch (ExtendedActivationKind::Launch) and a protocol launch
LaunchActivation == Activation(FALSE, TRUE, TRUE, FALSE, TRUE, FALSE, NoUri)
ProtocolActivation(text) == Activation(FALSE, TRUE, TRUE, TRUE, TRUE, TRUE, Uri(text))

\* WinMain's commandLine: a null pointer or narrow text
NullCommandLine == [null |-> TRUE, text |-> Empty]
CommandLine(text) == [null |-> FALSE, text |-> text]

\* GetProtocolUrlFromActivation: every early return and every catch
\* handler returns the still empty protocolUrl
GetProtocolUrlFromActivation(act) ==
  IF act.throws THEN Empty
  ELSE IF ~act.appInstance THEN Empty
  ELSE IF ~act.args THEN Empty
  ELSE IF act.kindProtocol
       THEN IF ~act.data THEN Empty
            ELSE IF act.isProtocolArgs
                 THEN IF ~act.uri.null THEN act.uri.abs ELSE Empty
                 ELSE Empty
       ELSE Empty

\* std::string::find: the first 0-based position of sub in s, -1 for npos
Find(s, sub) ==
  LET hits == {i \in 0..(Len(s) - Len(sub)) : SubSeq(s, i + 1, i + Len(sub)) = sub}
  IN  IF hits = {} THEN -1 ELSE CHOOSE i \in hits : \A j \in hits : i <= j

IsCont(b) == b >= 128 /\ b < 192

RECURSIVE MultiByteToWideChar(_)
\* MultiByteToWideChar(CP_UTF8, 0, ...): one- to three-byte sequences
\* decode to their code point, any other byte becomes U+FFFD
MultiByteToWideChar(bs) ==
  IF bs = <<>> THEN <<>>
  ELSE IF bs[1] < 128 THEN <<bs[1]>> \o MultiByteToWideChar(Tail(bs))
  ELSE IF bs[1] >= 194 /\ bs[1] < 224 /\ Len(bs) >= 2 /\ IsCont(bs[2])
       THEN <<(bs[1] - 192) * 64 + (bs[2] - 128)>>
              \o MultiByteToWideChar(SubSeq(bs, 3, Len(bs)))
  ELSE IF bs[1] >= 224 /\ bs[1] < 240 /\ Len(bs) >= 3 /\ IsCont(bs[2]) /\ IsCont(bs[3])
          /\ (bs[1] - 224) * 4096 + (bs[2] - 128) * 64 + (bs[3] - 128) >= 2048
       THEN <<(bs[1] - 224) * 4096 + (bs[2] - 128) * 64 + (bs[3] - 128)>>
              \o MultiByteToWideChar(SubSeq(bs, 4, Len(bs)))
  ELSE <<65533>> \o MultiByteToWideChar(Tail(bs))

\* WinMain, "Method 2": the command line is taken whole when the scheme
\* occurs anywhere in it
CommandLineUrl(cmd) ==
  IF ~cmd.null /\ Len(cmd.text) > 0
  THEN IF Find(cmd.text, Scheme) # -1 THEN MultiByteToWideChar(cmd.text) ELSE Empty
  ELSE Empty

\* A wrong order: the command line is scanned first.
WinMainExtract_CommandLineFirst(act, cmd) ==
  IF CommandLineUrl(cmd) # Empty THEN CommandLineUrl(cmd)
  ELSE GetProtocolUrlFromActivation(act)

\* WinMain: protocolUrl when the single-instance check starts
WinMainExtract(act, cmd) ==
  LET fromActivation == GetProtocolUrlFromActivation(act)
  IN  IF fromActivation = Empty THEN CommandLineUrl(cmd) ELSE fromActivation

(* ----------------------------------------------------------------------- *)
(* SpecExtract: WinMain's extraction applied to every launch of a bounded  *)
(* set of activation reports and command lines.                            *)
(* ----------------------------------------------------------------------- *)

Activations ==
  {Activation(t, ai, ar, k, d, pa, u) :
     t \in BOOLEAN, ai \in BOOLEAN, ar \in BOOLEAN, k \in BOOLEAN, d \in BOOLEAN,
     pa \in BOOLEAN, u \in {NoUri, Uri(UrlA), Uri(UrlWide)}}

\* "-x"
OtherToken == <<45, 120>>

CommandLines ==
  { NullCommandLine,
    CommandLine(Empty),
    CommandLine(OtherToken),                              \* -x
    CommandLine(UrlB),                                    \* com.tamshai.ai://b
    CommandLine(OtherToken \o <<32>> \o UrlB),            \* -x com.tamshai.ai://b
    CommandLine(UrlB \o <<32>> \o OtherToken),            \* com.tamshai.ai://b -x
    CommandLine(<<34>> \o UrlB \o <<34>>),                \* "com.tamshai.ai://b"
    CommandLine(Scheme \o <<208, 150>>),                  \* the scheme, U+0416 in UTF-8
    CommandLine(Scheme \o <<233>>),                       \* the scheme, a byte that is not UTF-8
    CommandLine(<<67, 79, 77>> \o SubSeq(UrlB, 4, Len(UrlB))) }  \* COM.tamshai.ai://b

NotExtracted == [done |-> FALSE, protocolUrl |-> Empty]

ExIdle ==
  /\ activation = LaunchActivation
  /\ commandLine = NullCommandLine
  /\ extracted = NotExtracted

ExInit ==
  /\ activation \in Activations
  /\ commandLine \in CommandLines
  /\ extracted = NotExtracted
  /\ ipcFile = AbsentFile
  /\ ipcOpen = {}
  /\ g_initialUrl = [p \in Procs |-> Empty]
  /\ callLog = <<>>
  /\ ProcIdle
  /\ AuthIdle
  /\ UwpIdle

ExExtract ==
  /\ ~extracted.done
  /\ extracted' = [done |-> TRUE, protocolUrl |-> WinMainExtract(activation, commandLine)]
  /\ UNCHANGED <<ipcVars, g_initialUrl, callLog, activation, commandLine, procVars, histVars, authVars, uwpVars>>

ExNext == ExExtract

SpecExtract == ExInit /\ [][ExNext]_vars

(* --------------------------- DeepLinkModule ---------------------------- *)

\* A consuming read: the URL is handed out and cleared.
getInitialURL_Consumes(url) == [resolved |-> url, g_initialUrl |-> Empty]

\* getInitialURL: what the promise resolves with, and g_initialUrl afterwards
getInitialURL(url) ==
  [resolved |-> IF url # Empty THEN url ELSE Empty, g_initialUrl |-> url]

\* clearInitialURL: g_initialUrl.clear()
clearInitialURL(url) == Empty

\* checkForCallbackUrl: what the promise resolves with, and the file afterwards
checkForCallbackUrl(file, others, readable) ==
  LET r == ReadUrlFromIpcFile(file, others, readable)
  IN  [resolved |-> IF r.url # Empty THEN r.url ELSE Empty, file |-> r.file]

(* ----------------------------------------------------------------------- *)
(* Spec: up to NumProcs launches of the Win32 application under one user.  *)
(* Each process runs WinMain; a process that reaches Start() runs a        *)
(* session whose JavaScript layer calls the DeepLinkModule methods.  The   *)
(* named mutex and the hand-off file are shared; every call on them is one *)
(* step, so the steps of different processes interleave.                   *)
(* ----------------------------------------------------------------------- *)

\* the launches considered: no deep link, a deep link by protocol activation,
\* the same deep link on the command line
LaunchInputs ==
  { <<LaunchActivation, CommandLine(Empty)>>,
    <<ProtocolActivation(UrlA), CommandLine(Empty)>>,
    <<LaunchActivation, CommandLine(UrlA)>> }

\* the named mutex exists while some process holds a handle on it
MutexExists == \E q \in Procs : hMutex[q]

\* CreateMutexW(NULL, TRUE, SINGLE_INSTANCE_MUTEX_NAME) followed by
\* GetLastError(): a new mutex; a handle on the existing one; or, when the
\* existing one does not grant the caller access, no handle at all
CreateMutexW(exists, denied) ==
  IF ~exists THEN [handle |-> TRUE, lastError |-> "ERROR_SUCCESS"]
  ELSE IF denied THEN [handle |-> FALSE, lastError |-> "ERROR_ACCESS_DENIED"]
  ELSE [handle |-> TRUE, lastError |-> "ERROR_ALREADY_EXISTS"]

\* bool isFirstInstance = (GetLastError() != ERROR_ALREADY_EXISTS)
IsFirstInstance(lastError) == lastError # "ERROR_ALREADY_EXISTS"

\* A hand-over without the test for a URL: every second instance writes.
HandsOver_AnySecondary(first, url) == ~first

\* if (!isFirstInstance && !protocolUrl.empty()): hand the URL over and exit
HandsOver(first, url) == ~first /\ url # Empty

\* if (!protocolUrl.empty()) g_initialUrl = protocolUrl
StoreInitialUrl(old, url) == IF url # Empty THEN url ELSE old

\* the message a process finds in the file (0: none)
MessageInFile == IF ipcFile.exists /\ ipcFile.bytes # <<>> THEN ipcFile.writer ELSE 0

Init ==
  /\ ipcFile = AbsentFile
  /\ ipcOpen = {}
  /\ g_initialUrl = [p \in Procs |-> Empty]
  /\ callLog = <<>>
  /\ ExIdle
  /\ ProcIdle
  /\ AuthIdle
  /\ UwpIdle

\* WinMain, from its first line to the hand-over branch or to Start(): the
\* extraction, CreateMutexW, the role; a process that does not hand over
\* stores its URL and starts the application
Launch(p) ==
  \E in \in LaunchInputs, denied \in BOOLEAN :
    LET url == WinMainExtract(in[1], in[2])
        m == CreateMutexW(MutexExists, denied)
        first == IsFirstInstance(m.lastError)
    IN  /\ pc[p] = "idle"
        /\ \A q \in Procs : q < p => pc[q] # "idle"
        /\ denied => MutexExists
        /\ protocolUrl' = [protocolUrl EXCEPT ![p] = url]
        /\ hMutex' = [hMutex EXCEPT ![p] = m.handle]
        /\ isFirstInstance' = [isFirstInstance EXCEPT ![p] = first]
        /\ IF HandsOver(first, url)
           THEN /\ pc' = [pc EXCEPT ![p] = "write"]
                /\ UNCHANGED <<g_initialUrl, staleAtStart>>
           ELSE /\ pc' = [pc EXCEPT ![p] = "running"]
                /\ g_initialUrl' = [g_initialUrl EXCEPT ![p] = StoreInitialUrl(@, url)]
                /\ staleAtStart' = [staleAtStart EXCEPT ![p] = MessageInFile]
        /\ UNCHANGED <<ipcVars, callLog, exVars, poll, delivered, gotStale, authVars, uwpVars>>

\* WriteUrlToIpcFile: std::wofstream file(ipcPath, std::ios::trunc); when
\* file.is_open() is false the function returns without writing
WriteOpen(p) ==
  \E opened \in BOOLEAN :
    /\ pc[p] = "write"
    /\ ipcFile' = WofstreamOpen(ipcFile, p, opened)
    /\ IF opened
       THEN /\ ipcOpen' = ipcOpen \cup {p}
            /\ pc' = [pc EXCEPT ![p] = "flush"]
       ELSE /\ pc' = [pc EXCEPT ![p] = "notOpened"]
            /\ UNCHANGED ipcOpen
    /\ UNCHANGED <<g_initialUrl, callLog, exVars, protocolUrl, hMutex, isFirstInstance,
                   poll, histVars, authVars, uwpVars>>

\* WriteUrlToIpcFile: file << url; file.close()
WriteClose(p) ==
  /\ pc[p] = "flush"
  /\ ipcFile' = WofstreamWriteClose(ipcFile, protocolUrl[p], p)
  /\ ipcOpen' = ipcOpen \ {p}
  /\ pc' = [pc EXCEPT ![p] = "release"]
  /\ UNCHANGED <<g_initialUrl, callLog, exVars, protocolUrl, hMutex, isFirstInstance,
                 poll, histVars, authVars, uwpVars>>

\* CloseHandle(hMutex); return 0: the process and its memory are gone
ExitSecondInstance(p) ==
  /\ pc[p] \in {"release", "notOpened"}
  /\ hMutex' = [hMutex EXCEPT ![p] = FALSE]
  /\ pc' = [pc EXCEPT ![p] = "exited"]
  /\ protocolUrl' = [protocolUrl EXCEPT ![p] = Empty]
  /\ UNCHANGED <<ipcVars, g_initialUrl, callLog, exVars, isFirstInstance,
                 poll, histVars, authVars, uwpVars>>

\* checkForCallbackUrl, ReadUrlFromIpcFile: std::wifstream file(ipcPath);
\* when the file does not open the promise resolves with "" at once
PollOpen(p) ==
  /\ pc[p] = "running" /\ poll[p].at = "none"
  /\ IF ipcFile.exists
     THEN /\ ipcOpen' = ipcOpen \cup {p}
          /\ poll' = [poll EXCEPT ![p].at = "opened"]
     ELSE UNCHANGED <<ipcOpen, poll>>
  /\ UNCHANGED <<ipcFile, g_initialUrl, callLog, exVars, pc, protocolUrl, hMutex,
                 isFirstInstance, histVars, authVars, uwpVars>>

\* ReadUrlFromIpcFile: std::getline(file, url)
PollGetLine(p) ==
  /\ pc[p] = "running" /\ poll[p].at = "opened"
  /\ poll' = [poll EXCEPT ![p] =
                [at |-> "read", url |-> WifstreamGetLine(ipcFile), src |-> ipcFile.writer]]
  /\ UNCHANGED <<ipcVars, g_initialUrl, callLog, exVars, pc, protocolUrl, hMutex,
                 isFirstInstance, histVars, authVars, uwpVars>>

\* ReadUrlFromIpcFile: file.close()
PollClose(p) ==
  /\ pc[p] = "running" /\ poll[p].at = "read"
  /\ ipcOpen' = ipcOpen \ {p}
  /\ poll' = [poll EXCEPT ![p].at = "closed"]
  /\ UNCHANGED <<ipcFile, g_initialUrl, callLog, exVars, pc, protocolUrl, hMutex,
                 isFirstInstance, histVars, authVars, uwpVars>>

\* ReadUrlFromIpcFile: DeleteFileW(ipcPath); checkForCallbackUrl resolves the
\* promise with the URL read
PollDelete(p) ==
  LET got == poll[p].url # Empty
      w == poll[p].src
  IN  /\ pc[p] = "running" /\ poll[p].at = "closed"
      /\ ipcFile' = DeleteFileW(ipcFile, ipcOpen)
      /\ poll' = [poll EXCEPT ![p] = NoPoll]
      /\ delivered' = IF got /\ w # 0 /\ delivered[w] < 2
                      THEN [delivered EXCEPT ![w] = @ + 1] ELSE delivered
      /\ gotStale' = IF got /\ w # 0 /\ w = staleAtStart[p]
                     THEN [gotStale EXCEPT ![p] = TRUE] ELSE gotStale
      /\ UNCHANGED <<ipcOpen, g_initialUrl, callLog, exVars, pc, protocolUrl, hMutex,
                     isFirstInstance, staleAtStart, authVars, uwpVars>>

\* DeepLinkModule::clearInitialURL in a running session
ClearInitialURL(p) ==
  /\ pc[p] = "running"
  /\ g_initialUrl' = [g_initialUrl EXCEPT ![p] = clearInitialURL(@)]
  /\ UNCHANGED <<ipcVars, callLog, exVars, procVars, histVars, authVars, uwpVars>>

\* the process of a running session ends (window closed, or killed): the
\* system closes its handles and its memory is gone
Terminate(p) ==
  /\ pc[p] = "running"
  /\ pc' = [pc EXCEPT ![p] = "dead"]
  /\ hMutex' = [hMutex EXCEPT ![p] = FALSE]
  /\ ipcOpen' = ipcOpen \ {p}
  /\ poll' = [poll EXCEPT ![p] = NoPoll]
  /\ protocolUrl' = [protocolUrl EXCEPT ![p] = Empty]
  /\ g_initialUrl' = [g_initialUrl EXCEPT ![p] = Empty]
  /\ staleAtStart' = [staleAtStart EXCEPT ![p] = 0]
  /\ UNCHANGED <<ipcFile, callLog, exVars, isFirstInstance, delivered, gotStale, authVars, uwpVars>>

Next ==
  \E p \in Procs :
    \/ Launch(p)
    \/ WriteOpen(p)
    \/ WriteClose(p)
    \/ ExitSecondInstance(p)
    \/ PollOpen(p)
    \/ PollGetLine(p)
    \/ PollClose(p)
    \/ PollDelete(p)
    \/ ClearInitialURL(p)
    \/ Terminate(p)

Spec == Init /\ [][Next]_vars

(* ----------------------------------------------------------------------- *)
(* SpecApi: one caller applies the hand-off functions and the DeepLinkModule *)
(* methods one after the other, each run as a whole, no other process      *)
(* touching the file.  callLog records each call and what it returned.     *)
(* ----------------------------------------------------------------------- *)

ApiUrls == {UrlA, UrlWide, UrlTwoLines}

Call(op, arg, ok, ret) == [op |-> op, arg |-> arg, ok |-> ok, ret |-> ret]

ApiInit ==
  /\ ipcFile \in {AbsentFile, WriteUrlToIpcFile(AbsentFile, UrlB, TRUE, 0)}
  /\ ipcOpen = {}
  /\ g_initialUrl \in [Procs -> {Empty, UrlB}]
  /\ \A p \in Procs : p # 1 => g_initialUrl[p] = Empty
  /\ callLog = <<>>
  /\ ExIdle
  /\ ProcIdle
  /\ AuthIdle
  /\ UwpIdle

ApiWrite ==
  \E url \in ApiUrls, opened \in BOOLEAN :
    /\ Len(callLog) < MaxCalls
    /\ ipcFile' = WriteUrlToIpcFile(ipcFile, url, opened, Len(callLog) + 1)
    /\ callLog' = Append(callLog, Call("write", url, opened, Empty))
    /\ UNCHANGED <<ipcOpen, g_initialUrl, exVars, procVars, histVars, authVars, uwpVars>>

ApiRead ==
  \E readable \in BOOLEAN :
    LET r == checkForCallbackUrl(ipcFile, ipcOpen, readable)
    IN  /\ Len(callLog) < MaxCalls
        /\ ipcFile' = r.file
        /\ callLog' = Append(callLog,
                             Call("read", Empty, WifstreamOpen(ipcFile, readable), r.resolved))
        /\ UNCHANGED <<ipcOpen, g_initialUrl, exVars, procVars, histVars, authVars, uwpVars>>

ApiClearStale ==
  /\ Len(callLog) < MaxCalls
  /\ ipcFile' = ClearStaleIpcFile(ipcFile, ipcOpen)
  /\ callLog' = Append(callLog, Call("clearStale", Empty, ipcFile.exists, Empty))
  /\ UNCHANGED <<ipcOpen, g_initialUrl, exVars, procVars, histVars, authVars, uwpVars>>

ApiGetInitialURL ==
  LET r == getInitialURL(g_initialUrl[1])
  IN  /\ Len(callLog) < MaxCalls
      /\ g_initialUrl' = [g_initialUrl EXCEPT ![1] = r.g_initialUrl]
      /\ callLog' = Append(callLog, Call("getInitial", Empty, TRUE, r.resolved))
      /\ UNCHANGED <<ipcVars, exVars, procVars, histVars, authVars, uwpVars>>

\* A clear that also removes the hand-off file.
ApiClearInitialURL_DiscardsHandoff ==
  /\ Len(callLog) < MaxCalls
  /\ g_initialUrl' = [g_initialUrl EXCEPT ![1] = clearInitialURL(g_initialUrl[1])]
  /\ ipcFile' = DeleteFileW(ipcFile, ipcOpen)
  /\ callLog' = Append(callLog, Call("clearInitial", Empty, TRUE, Empty))
  /\ UNCHANGED <<ipcOpen, exVars, procVars, histVars, authVars, uwpVars>>

ApiClearInitialURL ==
  /\ Len(callLog) < MaxCalls
  /\ g_initialUrl' = [g_initialUrl EXCEPT ![1] = clearInitialURL(g_initialUrl[1])]
  /\ callLog' = Append(callLog, Call("clearInitial", Empty, TRUE, Empty))
  /\ UNCHANGED <<ipcVars, exVars, procVars, histVars, authVars, uwpVars>>

ApiNext ==
  \/ ApiWrite
  \/ ApiRead
  \/ ApiClearStale
  \/ ApiGetInitialURL
  \/ ApiClearInitialURL

SpecApi == ApiInit /\ [][ApiNext]_vars

(* ----------------------------------------------------------------------- *)
(* SpecAuth: the WebAuthModule of one process.  WinMain captures the main  *)
(* thread's DispatcherQueue and starts the application; then authenticate  *)
(* and getCallbackUri are called from any thread.  The main thread runs    *)
(* the queued tasks one after the other; a task that reaches               *)
(* co_await AuthenticateAsync(...) suspends there and is resumed when the  *)
(* broker flow ends.                                                       *)
(* ----------------------------------------------------------------------- *)

Threads == {"main", "js"}

\* DispatcherQueue::GetForCurrentThread() on the main thread: the queue of
\* that thread, or null when the thread has none
GetForCurrentThread(hasQueue) == IF hasQueue THEN "main" ELSE "nullptr"

\* A direct call: the lambda runs where authenticate was called.
EnqueuedTaskThread_Caller(queue, caller) == caller

\* g_mainDispatcherQueue.TryEnqueue(lambda): the lambda runs on the thread
\* the queue belongs to
EnqueuedTaskThread(queue, caller) == queue

\* what a promise is settled with: the text given to Resolve or Reject and
\* the number appended to it (0: none)
Value(text, code) == [text |-> text, code |-> code]

Reason(text) == Value(text, 0)

Pending == [state |-> "pending", settles |-> 0, value |-> Reason("none")]

\* promise.Resolve / promise.Reject
Settle(promise, state, value) ==
  [state |-> IF promise.settles = 0 THEN state ELSE promise.state,
   settles |-> promise.settles + 1,
   value |-> IF promise.settles = 0 THEN value ELSE promise.value]

\* the result of the broker flow: result.ResponseStatus(), ResponseData(),
\* ResponseErrorDetail()
BrokerResult(status, responseData, errorDetail) ==
  [status |-> status, responseData |-> responseData, errorDetail |-> errorDetail]

NoOutcome == BrokerResult("none", "", 0)

\* enqueued: what TryEnqueue returned ("none": it was not called; "posted":
\* the task went to UIDispatcher().Post); outcome: how the broker flow ended
Request(kind, caller, urisValid) ==
  [kind |-> kind, caller |-> caller, urisValid |-> urisValid, enqueued |-> "none",
   phase |-> "called", thread |-> "none", promise |-> Pending, outcome |-> NoOutcome]

\* A call that replaces the one in flight: the promises still pending are
\* rejected when a new request arrives.
NewRequest_Supersedes(reqs, r) ==
  Append([i \in 1..Len(reqs) |->
            IF reqs[i].promise.settles = 0
            THEN [reqs[i] EXCEPT !.promise = Settle(@, "rejected", Reason("superseded"))]
            ELSE reqs[i]], r)

\* each call has its own promise argument, captured by value in its lambda
NewRequest(reqs, r) == Append(reqs, r)

\* A return without promise.Reject.
RejectAtCall_NoReject(r, reason) == [r EXCEPT !.phase = "done"]

\* promise.Reject(reason); return, in authenticate or getCallbackUri itself
RejectAtCall(r, reason) ==
  [r EXCEPT !.phase = "done", !.promise = Settle(@, "rejected", Reason(reason))]

\* A queue that runs the newest task first.
TryEnqueue_Front(queue, id) == <<id>> \o queue

\* g_mainDispatcherQueue.TryEnqueue(lambda) when it returns true: the task
\* goes to the end of the queue (one priority, DispatcherQueuePriority::Normal)
TryEnqueue(queue, id) == Append(queue, id)

\* A second AuthenticateAsync call by the same task.
AuthenticateAsync_Twice(log, id, thread) ==
  Append(Append(log, [request |-> id, thread |-> thread]), [request |-> id, thread |-> thread])

\* WebAuthenticationBroker::AuthenticateAsync(None, startUri, endUri) called
\* by the task of request id on thread
AuthenticateAsync(log, id, thread) == Append(log, [request |-> id, thread |-> thread])

\* result.ResponseData() and result.ResponseErrorDetail() values considered
ResponseDatas == {"com.tamshai.ai://callback?code=1", "com.tamshai.ai://callback?code=2"}

ErrorDetails == {404, 500}

\* the terminal states of the broker flow: a result with its status, or an
\* hresult_error thrown from the co_await
BrokerOutcomes ==
  {BrokerResult("Success", d, 0) : d \in ResponseDatas}
    \cup {BrokerResult("ErrorHttp", "", c) : c \in ErrorDetails}
    \cup {BrokerResult(s, "", 0) : s \in {"UserCancel", "Other", "hresult_error"}}

\* The switch without its default case: an unrecognised status settles nothing.
AuthenticateSettle_NoDefault(promise, outcome) ==
  IF outcome.status = "Success"
  THEN Settle(promise, "resolved", Reason(outcome.responseData))
  ELSE IF outcome.status = "UserCancel"
       THEN Settle(promise, "rejected", Reason("User cancelled authentication"))
  ELSE IF outcome.status = "ErrorHttp"
       THEN Settle(promise, "rejected",
                   Value("HTTP error during authentication: ", outcome.errorDetail))
  ELSE IF outcome.status = "hresult_error"
       THEN Settle(promise, "rejected", Reason("WebAuthenticationBroker error: "))
  ELSE promise

\* The Success case without its break: it runs on into the next Reject.
AuthenticateSettle_Fallthrough(promise, outcome) ==
  IF outcome.status = "Success"
  THEN Settle(Settle(promise, "resolved", Reason(outcome.responseData)),
              "rejected", Reason("User cancelled authentication"))
  ELSE IF outcome.status = "UserCancel"
       THEN Settle(promise, "rejected", Reason("User cancelled authentication"))
  ELSE IF outcome.status = "ErrorHttp"
       THEN Settle(promise, "rejected",
                   Value("HTTP error during authentication: ", outcome.errorDetail))
  ELSE IF outcome.status = "hresult_error"
       THEN Settle(promise, "rejected", Reason("WebAuthenticationBroker error: "))
  ELSE Settle(promise, "rejected", Reason("Unknown authentication response status"))

\* The ErrorHttp case without the error detail in its message.
AuthenticateSettle_DropsCode(promise, outcome) ==
  IF outcome.status = "Success"
  THEN Settle(promise, "resolved", Reason(outcome.responseData))
  ELSE IF outcome.status = "UserCancel"
       THEN Settle(promise, "rejected", Reason("User cancelled authentication"))
  ELSE IF outcome.status = "ErrorHttp"
       THEN Settle(promise, "rejected", Reason("HTTP error during authentication: "))
  ELSE IF outcome.status = "hresult_error"
       THEN Settle(promise, "rejected", Reason("WebAuthenticationBroker error: "))
  ELSE Settle(promise, "rejected", Reason("Unknown authentication response status"))

\* the switch on result.ResponseStatus() and the catch handler
AuthenticateSettle(promise, outcome) ==
  IF outcome.status = "Success"
  THEN Settle(promise, "resolved", Reason(outcome.responseData))
  ELSE IF outcome.status = "UserCancel"
       THEN Settle(promise, "rejected", Reason("User cancelled authentication"))
  ELSE IF outcome.status = "ErrorHttp"
       THEN Settle(promise, "rejected",
                   Value("HTTP error during authentication: ", outcome.errorDetail))
  ELSE IF outcome.status = "hresult_error"
       THEN Settle(promise, "rejected", Reason("WebAuthenticationBroker error: "))
  ELSE Settle(promise, "rejected", Reason("Unknown authentication response status"))

AuthInit ==
  /\ g_mainDispatcherQueue = "nullptr"
  /\ uiDispatcher \in BOOLEAN
  /\ appStarted = FALSE
  /\ uiQueue = <<>>
  /\ requests = <<>>
  /\ brokerLog = <<>>
  /\ ipcFile = AbsentFile
  /\ ipcOpen = {}
  /\ g_initialUrl = [p \in Procs |-> Empty]
  /\ callLog = <<>>
  /\ ExIdle
  /\ ProcIdle
  /\ UwpIdle

AuthFrame == UNCHANGED <<ipcVars, g_initialUrl, callLog, exVars, procVars, histVars, uwpVars>>

\* A capture that can run again while the application runs.
AuthStart_Recapture ==
  \E hasQueue \in BOOLEAN :
    /\ g_mainDispatcherQueue' = GetForCurrentThread(hasQueue)
    /\ appStarted' = TRUE
    /\ UNCHANGED <<uiDispatcher, uiQueue, requests, brokerLog>>
    /\ AuthFrame

\* WinMain: g_mainDispatcherQueue = DispatcherQueue::GetForCurrentThread(),
\* then the settings, the window and reactNativeWin32App.Start()
AuthStart ==
  \E hasQueue \in BOOLEAN :
    /\ ~appStarted
    /\ g_mainDispatcherQueue' = GetForCurrentThread(hasQueue)
    /\ appStarted' = TRUE
    /\ UNCHANGED <<uiDispatcher, uiQueue, requests, brokerLog>>
    /\ AuthFrame

\* WebAuthModule::authenticate, called on thread caller
Authenticate ==
  \E caller \in Threads, urisValid \in BOOLEAN, enqueued \in BOOLEAN :
    LET id == Len(requests) + 1
        r == Request("authenticate", caller, urisValid)
    IN  /\ appStarted
        /\ Len(requests) < MaxRequests
        /\ IF g_mainDispatcherQueue = "nullptr"
           THEN /\ requests' = NewRequest(requests,
                      RejectAtCall(r, "No main thread dispatcher available"))
                /\ UNCHANGED uiQueue
           ELSE IF enqueued
           THEN /\ requests' = NewRequest(requests,
                      [r EXCEPT !.enqueued = "ok", !.phase = "queued",
                                !.thread = EnqueuedTaskThread(g_mainDispatcherQueue, caller)])
                /\ uiQueue' = TryEnqueue(uiQueue, id)
           ELSE /\ requests' = NewRequest(requests,
                      RejectAtCall([r EXCEPT !.enqueued = "failed"],
                                   "Failed to dispatch authenticate to main thread"))
                /\ UNCHANGED uiQueue
        /\ UNCHANGED <<g_mainDispatcherQueue, uiDispatcher, appStarted, brokerLog>>
        /\ AuthFrame

\* WebAuthModule::getCallbackUri, called on thread caller
GetCallbackUri ==
  \E caller \in Threads, enqueued \in BOOLEAN :
    LET id == Len(requests) + 1
        r == Request("getCallbackUri", caller, TRUE)
    IN  /\ appStarted
        /\ Len(requests) < MaxRequests
        /\ IF g_mainDispatcherQueue = "nullptr"
           THEN IF uiDispatcher
                THEN /\ requests' = NewRequest(requests,
                           [r EXCEPT !.enqueued = "posted", !.phase = "queued",
                                     !.thread = "main"])
                     /\ uiQueue' = Append(uiQueue, id)
                ELSE /\ requests' = NewRequest(requests,
                           RejectAtCall(r, "No dispatcher available"))
                     /\ UNCHANGED uiQueue
           ELSE IF enqueued
           THEN /\ requests' = NewRequest(requests,
                      [r EXCEPT !.enqueued = "ok", !.phase = "queued",
                                !.thread = EnqueuedTaskThread(g_mainDispatcherQueue, caller)])
                /\ uiQueue' = TryEnqueue(uiQueue, id)
           ELSE /\ requests' = NewRequest(requests,
                      RejectAtCall([r EXCEPT !.enqueued = "failed"],
                                   "Failed to dispatch to main thread"))
                /\ UNCHANGED uiQueue
        /\ UNCHANGED <<g_mainDispatcherQueue, uiDispatcher, appStarted, brokerLog>>
        /\ AuthFrame

\* the main thread takes the next task: the authenticate lambda builds the
\* two Uri objects (an invalid one throws, and the handler rejects), calls
\* AuthenticateAsync and suspends in co_await, which returns to the queue
RunAuthenticateTask ==
  /\ uiQueue # <<>>
  /\ requests[Head(uiQueue)].kind = "authenticate"
  /\ LET id == Head(uiQueue)
         r == requests[id]
     IN  IF r.urisValid
         THEN /\ brokerLog' = AuthenticateAsync(brokerLog, id, r.thread)
              /\ requests' = [requests EXCEPT ![id].phase = "awaiting"]
         ELSE /\ requests' = [requests EXCEPT
                   ![id].phase = "done",
                   ![id].promise = Settle(@, "rejected",
                                          Reason("WebAuthenticationBroker error: "))]
              /\ UNCHANGED brokerLog
  /\ uiQueue' = Tail(uiQueue)
  /\ UNCHANGED <<g_mainDispatcherQueue, uiDispatcher, appStarted>>
  /\ AuthFrame

\* the main thread takes the next task: the getCallbackUri lambda calls
\* GetCurrentApplicationCallbackUri, which returns the URI or throws
RunGetCallbackUriTask ==
  \E throws \in BOOLEAN :
    /\ uiQueue # <<>>
    /\ requests[Head(uiQueue)].kind = "getCallbackUri"
    /\ requests' = [requests EXCEPT
          ![Head(uiQueue)].phase = "done",
          ![Head(uiQueue)].promise =
             IF throws THEN Settle(@, "rejected", Reason("Failed to get callback URI"))
             ELSE Settle(@, "resolved", Reason("AbsoluteUri"))]
    /\ uiQueue' = Tail(uiQueue)
    /\ UNCHANGED <<g_mainDispatcherQueue, uiDispatcher, appStarted, brokerLog>>
    /\ AuthFrame

\* the broker flow of a suspended task ends: the asynchronous operation
\* completes; its result is read when the task resumes
BrokerCompletes ==
  \E id \in 1..Len(requests) :
    /\ requests[id].phase = "awaiting"
    /\ requests' = [requests EXCEPT ![id].phase = "completed"]
    /\ UNCHANGED <<g_mainDispatcherQueue, uiDispatcher, appStarted, uiQueue, brokerLog>>
    /\ AuthFrame

\* the execution context resumes the task after its co_await, with the
\* result of the flow or the error it threw: the switch on the status, or
\* the catch handler, settles the promise; co_return
ResumeAuthenticateTask ==
  \E id \in 1..Len(requests), outcome \in BrokerOutcomes :
    /\ requests[id].phase = "completed"
    /\ requests' = [requests EXCEPT
          ![id].phase = "done",
          ![id].outcome = outcome,
          ![id].promise = AuthenticateSettle(@, outcome)]
    /\ UNCHANGED <<g_mainDispatcherQueue, uiDispatcher, appStarted, uiQueue, brokerLog>>
    /\ AuthFrame

AuthNext ==
  \/ AuthStart
  \/ Authenticate
  \/ GetCallbackUri
  \/ RunAuthenticateTask
  \/ RunGetCallbackUriTask
  \/ BrokerCompletes
  \/ ResumeAuthenticateTask

SpecAuth == AuthInit /\ [][AuthNext]_vars

\* the execution context keeps running: a task whose broker flow has ended
\* is resumed
SpecAuthFair == SpecAuth /\ WF_vars(ResumeAuthenticateTask)

(* ----------------------------------------------------------------------- *)
(* SpecUwp: the UWP application (App.cpp, ReactPackageProvider.cpp).  The   *)
(* system keeps one process and delivers every activation to it: the first *)
(* one finds a window without content, the later ones find the running     *)
(* application.  Once the window has content the JavaScript layer calls    *)
(* the DeepLinkModule methods.  The pending initial URL of the process is   *)
(* g_initialUrl[1]; callLog records the handlers and calls that ran.       *)
(* ----------------------------------------------------------------------- *)

\* what OnActivated may be handed: a kind other than Protocol, a protocol
\* activation with a URI, one with a null URI, one whose arguments fail the
\* cast to ProtocolActivatedEventArgs, one whose OS calls throw
UwpActivations ==
  { LaunchActivation,
    ProtocolActivation(UrlA),
    ProtocolActivation(UrlB),
    ProtocolActivation(UrlWide),
    Activation(FALSE, TRUE, TRUE, TRUE, TRUE, TRUE, NoUri),
    Activation(FALSE, TRUE, TRUE, TRUE, TRUE, FALSE, Uri(UrlA)),
    Activation(TRUE, TRUE, TRUE, TRUE, TRUE, TRUE, Uri(UrlA)) }

\* App::OnActivated up to the store: e.Kind(), e.as<ProtocolActivatedEventArgs>()
\* (which throws when the cast fails), Uri(), AbsoluteUri().  The handler
\* has no try block: fault is an exception leaving it.
OnActivatedUrl(act) ==
  IF act.throws THEN [fault |-> TRUE, url |-> Empty]
  ELSE IF act.kindProtocol
       THEN IF ~act.isProtocolArgs THEN [fault |-> TRUE, url |-> Empty]
            ELSE IF ~act.uri.null THEN [fault |-> FALSE, url |-> act.uri.abs]
            ELSE [fault |-> FALSE, url |-> Empty]
       ELSE [fault |-> FALSE, url |-> Empty]

\* A store that ignores the window: every URL goes to g_initialUrl.
OnActivatedStore_AlwaysSlot(slot, file, url, content, opened, w) ==
  IF url = Empty THEN [slot |-> slot, file |-> file]
  ELSE [slot |-> url, file |-> file]

\* A store without the else: the URL of a running application goes to both.
OnActivatedStore_Both(slot, file, url, content, opened, w) ==
  IF url = Empty THEN [slot |-> slot, file |-> file]
  ELSE IF content
       THEN [slot |-> url, file |-> WriteUrlToIpcFile(file, url, opened, w)]
       ELSE [slot |-> url, file |-> file]

\* App::OnActivated, the store of a URL that was found: to the hand-off file
\* when the window has content, to g_initialUrl when it has none
OnActivatedStore(slot, file, url, content, opened, w) ==
  IF url = Empty THEN [slot |-> slot, file |-> file]
  ELSE IF content
       THEN [slot |-> slot, file |-> WriteUrlToIpcFile(file, url, opened, w)]
       ELSE [slot |-> url, file |-> file]

UwpInit ==
  /\ ipcFile = AbsentFile
  /\ ipcOpen = {}
  /\ g_initialUrl = [p \in Procs |-> Empty]
  /\ callLog = <<>>
  /\ ExIdle
  /\ ProcIdle
  /\ AuthIdle
  /\ UwpIdle

UwpFrame == UNCHANGED <<ipcOpen, exVars, procVars, histVars, authVars>>

\* App::OnLaunched: super::OnLaunched creates the root frame, then Navigate
UwpOnLaunched ==
  /\ ~uwpFault
  /\ Len(callLog) < MaxCalls
  /\ windowContent' = TRUE
  /\ callLog' = Append(callLog, Call("OnLaunched", Empty, TRUE, Empty))
  /\ UNCHANGED <<ipcFile, g_initialUrl, uwpFault>>
  /\ UwpFrame

\* App::OnActivated: the store, then super::OnActivated, which gives the
\* window its content, and Navigate; an exception skips all of it
UwpOnActivated ==
  \E act \in UwpActivations, opened \in BOOLEAN :
    LET found == OnActivatedUrl(act)
        stored == OnActivatedStore(g_initialUrl[1], ipcFile, found.url, windowContent,
                                   opened, Len(callLog) + 1)
    IN  /\ ~uwpFault
        /\ Len(callLog) < MaxCalls
        /\ IF found.fault
           THEN /\ uwpFault' = TRUE
                /\ UNCHANGED <<ipcFile, g_initialUrl, windowContent>>
           ELSE /\ g_initialUrl' = [g_initialUrl EXCEPT ![1] = stored.slot]
                /\ ipcFile' = stored.file
                /\ windowContent' = TRUE
                /\ UNCHANGED uwpFault
        /\ callLog' = Append(callLog, [op |-> "OnActivated", arg |-> found.url,
                                        ok |-> ~found.fault, ret |-> Empty,
                                        opened |-> opened])
        /\ UwpFrame

\* DeepLinkModule::getInitialURL of ReactPackageProvider.cpp
UwpGetInitialURL ==
  LET r == getInitialURL(g_initialUrl[1])
  IN  /\ windowContent /\ ~uwpFault
      /\ Len(callLog) < MaxCalls
      /\ g_initialUrl' = [g_initialUrl EXCEPT ![1] = r.g_initialUrl]
      /\ callLog' = Append(callLog, Call("getInitial", Empty, TRUE, r.resolved))
      /\ UNCHANGED <<ipcFile, windowContent, uwpFault>>
      /\ UwpFrame

\* DeepLinkModule::clearInitialURL of ReactPackageProvider.cpp
UwpClearInitialURL ==
  /\ windowContent /\ ~uwpFault
  /\ Len(callLog) < MaxCalls
  /\ g_initialUrl' = [g_initialUrl EXCEPT ![1] = clearInitialURL(g_initialUrl[1])]
  /\ callLog' = Append(callLog, Call("clearInitial", Empty, TRUE, Empty))
  /\ UNCHANGED <<ipcFile, windowContent, uwpFault>>
  /\ UwpFrame

\* DeepLinkModule::checkForCallbackUrl of ReactPackageProvider.cpp
UwpCheckForCallbackUrl ==
  \E readable \in BOOLEAN :
    LET r == checkForCallbackUrl(ipcFile, ipcOpen, readable)
    IN  /\ windowContent /\ ~uwpFault
        /\ Len(callLog) < MaxCalls
        /\ ipcFile' = r.file
        /\ callLog' = Append(callLog,
                             Call("read", Empty, WifstreamOpen(ipcFile, readable), r.resolved))
        /\ UNCHANGED <<g_initialUrl, windowContent, uwpFault>>
        /\ UwpFrame

UwpNext ==
  \/ UwpOnLaunched
  \/ UwpOnActivated
  \/ UwpGetInitialURL
  \/ UwpClearInitialURL
  \/ UwpCheckForCallbackUrl

SpecUwp == UwpInit /\ [][UwpNext]_vars

(* ----------------------------------------------------------------------- *)
(* The claims.                                                             *)
(* ----------------------------------------------------------------------- *)

\* a process past the single-instance check that has not ended
Live(p) == pc[p] \in {"write", "flush", "release", "notOpened", "running"}

\* the live processes that took the Primary role (isFirstInstance)
Primaries == {p \in Procs : Live(p) /\ isFirstInstance[p]}

\* C1: at every moment at most one live process holds the Primary role, and
\* among processes launched concurrently (none has ended yet) exactly one
\* obtains Primary and all the others obtain Secondary.
C1_OnePrimary ==
  /\ Cardinality(Primaries) <= 1
  /\ ((\E p \in Procs : Live(p)) /\ (\A p \in Procs : pc[p] \notin {"exited", "dead"}))
       => Cardinality(Primaries) = 1

\* C2: every process that obtains the Secondary role (the mutex already
\* exists) exits without starting a session, with or without a URL; only a
\* Primary reaches Start().
C2_SecondaryNeverStarts ==
  \A p \in Procs : pc[p] = "running" => isFirstInstance[p]

IsCall(i, op) == i \in 1..Len(callLog) /\ callLog[i].op = op

\* C3: for every single-line URL url, write(url) followed immediately by a
\* read() that opens the file returns url, and a second immediate read()
\* returns nothing.
C3_WriteReadRead ==
  \A i \in 1..Len(callLog) :
    (/\ IsCall(i, "write") /\ callLog[i].ok /\ SingleLine(callLog[i].arg)
     /\ IsCall(i + 1, "read") /\ callLog[i + 1].ok)
      => /\ callLog[i + 1].ret = callLog[i].arg
         /\ (IsCall(i + 2, "read") => callLog[i + 2].ret = Empty)

\* C4: at-most-once delivery: the URL stored by one write() is returned by at
\* most one checkForCallbackUrl call.
C4_AtMostOnceDelivery ==
  \A w \in Procs : delivered[w] <= 1

\* C5: a hand-off URL written before a Primary started is never returned by
\* that Primary's checkForCallbackUrl (the Primary clears the slot at start-up).
C5_StaleNeverDelivered ==
  \A p \in Procs : (isFirstInstance[p] /\ hMutex[p]) => ~gotStale[p]

\* C6: after clearStale(), a read() with no write in between returns nothing,
\* whether or not a message was in the slot.
C6_ClearStaleThenRead ==
  \A i \in 1..Len(callLog) :
    (IsCall(i, "clearStale") /\ IsCall(i + 1, "read")) => callLog[i + 1].ret = Empty

\* C6 happens: an unread message was cleared and the next read returned nothing
C6_Witness ==
  /\ Len(callLog) >= 3
  /\ IsCall(1, "write") /\ callLog[1].ok /\ callLog[1].arg = UrlA
  /\ IsCall(2, "clearStale") /\ callLog[2].ok
  /\ IsCall(3, "read") /\ callLog[3].ret = Empty

\* C7: getInitialURL never clears: getInitialURL calls with no clearInitialURL
\* between them all return the same value, and every getInitialURL after a
\* clearInitialURL returns empty.
C7_GetInitialDoesNotClear ==
  \A i \in 1..Len(callLog), j \in 1..Len(callLog) :
    (i < j /\ IsCall(i, "getInitial") /\ IsCall(j, "getInitial"))
      => /\ (\A k \in i..j : ~IsCall(k, "clearInitial")) => callLog[j].ret = callLog[i].ret
         /\ (\E k \in i..j : IsCall(k, "clearInitial")) => callLog[j].ret = Empty

\* C7 happens: a pending URL is returned twice, cleared, then empty is returned
C7_Witness ==
  /\ Len(callLog) = 4
  /\ IsCall(1, "getInitial") /\ callLog[1].ret = UrlB
  /\ IsCall(2, "getInitial") /\ callLog[2].ret = UrlB
  /\ IsCall(3, "clearInitial")
  /\ IsCall(4, "getInitial") /\ callLog[4].ret = Empty

\* the structured activation data carries a URL
ActivationCarriesUrl(act) ==
  /\ ~act.throws /\ act.appInstance /\ act.args /\ act.kindProtocol
  /\ act.data /\ act.isProtocolArgs /\ ~act.uri.null

\* the command-line token that starts where the scheme is found: the text
\* from there up to the next space or double quote
RECURSIVE Token(_)
Token(s) ==
  IF s = <<>> \/ Head(s) = 32 \/ Head(s) = 34 THEN <<>>
  ELSE <<Head(s)>> \o Token(Tail(s))

DeepLinkIn(text) ==
  Token(SubSeq(text, Find(text, Scheme) + 1, Len(text)))

\* C8: when the activation data yields no URL, the command-line fallback
\* yields exactly the deep-link URL (the text beginning at the scheme, with
\* no other command-line token) if the command line contains one, and
\* nothing if the command line has no matching substring.
C8_CommandLineFallback ==
  (extracted.done /\ ~ActivationCarriesUrl(activation))
    => IF ~commandLine.null /\ Find(commandLine.text, Scheme) # -1
       THEN extracted.protocolUrl = MultiByteToWideChar(DeepLinkIn(commandLine.text))
       ELSE extracted.protocolUrl = Empty

\* C9: the structured activation data comes first: when it carries a URL that
\* URL is the result whatever the command line holds; the command line decides
\* the result only when the activation data yielded none.
C9_ActivationFirst ==
  extracted.done
    => /\ ActivationCarriesUrl(activation) => extracted.protocolUrl = activation.uri.abs
       /\ extracted.protocolUrl # Empty /\ ~ActivationCarriesUrl(activation)
            => /\ ~commandLine.null
               /\ extracted.protocolUrl = MultiByteToWideChar(commandLine.text)

\* C9 happens: both variants offer a URL and the activation's is taken
C9_Witness ==
  /\ extracted.done
  /\ ActivationCarriesUrl(activation) /\ activation.uri.abs = UrlA
  /\ commandLine = CommandLine(UrlB)
  /\ extracted.protocolUrl = UrlA

\* C10: whatever thread calls authenticate(), AuthenticateAsync is called
\* only by a task running on the captured UI execution context, the main
\* thread's queue: never on the caller's thread or any other thread.
C10_BrokerOnlyOnUiContext ==
  \A i \in 1..Len(brokerLog) :
    /\ g_mainDispatcherQueue # "nullptr"
    /\ brokerLog[i].thread = g_mainDispatcherQueue
    /\ brokerLog[i].thread = "main"

\* C10 happens: authenticate was called on the JavaScript thread and its broker
\* call was made on the main thread
C10_Witness ==
  \E i \in 1..Len(brokerLog) :
    /\ requests[brokerLog[i].request].caller = "js"
    /\ brokerLog[i].thread = "main"

\* the request was handed to an execution context (its task was queued)
Dispatched(i) == requests[i].thread # "none"

\* the task of request i has begun
Started(i) == Dispatched(i) /\ requests[i].phase \in {"awaiting", "completed", "done"}

\* the AuthenticateAsync calls made for request i
BrokerCalls(i) == Cardinality({k \in 1..Len(brokerLog) : brokerLog[k].request = i})

AuthRequests == {i \in 1..Len(requests) : requests[i].kind = "authenticate"}

\* C11: when g_mainDispatcherQueue was never captured and the fallback
\* execution context (the React context's UIDispatcher) is available, every
\* authenticate() and getCallbackUri request is dispatched on the fallback
\* rather than rejected.
C11_FallbackDispatches ==
  (g_mainDispatcherQueue = "nullptr" /\ uiDispatcher)
    => \A i \in 1..Len(requests) : Dispatched(i) /\ requests[i].thread = "main"

\* request i found no execution context, or its task could not be enqueued
NoContextOrNotEnqueued(i) ==
  \/ g_mainDispatcherQueue = "nullptr" /\ ~uiDispatcher
  \/ requests[i].enqueued = "failed"

\* C12: a request that finds no execution context (no captured queue and no
\* fallback), or whose task cannot be enqueued, is rejected in the call
\* itself, the broker is never invoked for it, and the process keeps running
\* (later requests are still accepted and served).
C12_RejectedAtCall ==
  \A i \in 1..Len(requests) :
    NoContextOrNotEnqueued(i)
      => /\ requests[i].phase = "done"
         /\ requests[i].promise.state = "rejected"
         /\ requests[i].promise.settles = 1
         /\ ~Dispatched(i)
         /\ BrokerCalls(i) = 0
         /\ i \notin {uiQueue[k] : k \in 1..Len(uiQueue)}
         /\ appStarted

\* C12 happens: an enqueue failed and was rejected, and a later request of the
\* same process was served
C12_Witness ==
  /\ Len(requests) >= 2
  /\ requests[1].kind = "authenticate" /\ requests[1].enqueued = "failed"
  /\ requests[1].promise.state = "rejected"
  /\ requests[2].kind = "authenticate" /\ requests[2].promise.state = "resolved"

\* C13: the promise of every authenticate and getCallbackUri request is
\* settled at most once on every path, and exactly once when the request is
\* over (rejected in the call, or its queued task ran to its end).
C13_SettledOnce ==
  \A i \in 1..Len(requests) :
    /\ requests[i].promise.settles <= 1
    /\ requests[i].phase = "done" <=> requests[i].promise.settles = 1
    /\ requests[i].promise.settles = 0 <=> requests[i].promise.state = "pending"

\* C13 happens: one request was rejected for an enqueue failure, one task was
\* resolved from a broker Success, one task was rejected from a caught exception
C13_Witness ==
  /\ Len(requests) = MaxRequests
  /\ \E i \in 1..Len(requests) : requests[i].enqueued = "failed"
  /\ \E i \in 1..Len(requests) : requests[i].outcome.status = "Success"
  /\ \E i \in AuthRequests : Started(i) /\ ~requests[i].urisValid
  /\ \A i \in 1..Len(requests) : requests[i].promise.settles = 1

\* C14: tasks start in the order they were enqueued: of two authenticate
\* requests enqueued on the queue, the later one's task (and its broker call)
\* never begins before the earlier one's.
C14_FifoStart ==
  /\ \A i \in AuthRequests, j \in AuthRequests :
       (i < j /\ Dispatched(i) /\ Started(j)) => Started(i)
  /\ \A k \in 1..Len(brokerLog), l \in 1..Len(brokerLog) :
       k < l => brokerLog[k].request < brokerLog[l].request

\* C14 happens: two authenticate tasks were waiting together and the first
\* has begun while the second still waits
C14_Witness ==
  /\ Len(requests) >= 2
  /\ requests[1].kind = "authenticate" /\ requests[2].kind = "authenticate"
  /\ requests[1].phase = "awaiting" /\ BrokerCalls(1) = 1
  /\ requests[2].phase = "queued" /\ uiQueue = <<2>>

\* C15: authenticate tasks run one at a time: the task of a later request has
\* not begun while an earlier request's task is in progress (its broker flow
\* not ended, its promise not settled).
C15_OneAtATime ==
  \A i \in AuthRequests, j \in AuthRequests :
    (i < j /\ Dispatched(i) /\ Started(j)) => requests[i].phase = "done"

\* C16: every authenticate call owns its promise: a step in which a new
\* request arrives changes no earlier request, and a promise is settled only
\* by the step of its own request (its task, or the end of its broker flow),
\* which settles no other promise.
C16_IndependentFutures ==
  [][ /\ Len(requests') >= Len(requests)
      /\ Len(requests') > Len(requests)
           => \A i \in 1..Len(requests) : requests'[i] = requests[i]
      /\ \A i \in 1..Len(requests) :
           requests'[i].promise # requests[i].promise
             => /\ requests[i].phase \in {"queued", "completed"}
                /\ requests[i].phase = "queued" => uiQueue # <<>> /\ Head(uiQueue) = i
                /\ requests[i].phase = "completed"
                     => requests'[i].promise =
                          AuthenticateSettle(requests[i].promise, requests'[i].outcome)
                /\ \A j \in 1..Len(requests) : j # i => requests'[j] = requests[j] ]_vars

\* C16 happens: a second authenticate call arrived while the first was in its
\* broker flow; the first was then settled from its own outcome and the
\* second is still pending
C16_Witness ==
  /\ Len(requests) >= 2
  /\ requests[1].kind = "authenticate" /\ requests[2].kind = "authenticate"
  /\ brokerLog = <<[request |-> 1, thread |-> "main"], [request |-> 2, thread |-> "main"]>>
  /\ requests[1].outcome.status = "UserCancel" /\ requests[1].promise.state = "rejected"
  /\ requests[2].phase = "awaiting" /\ requests[2].promise = Pending

\* the requests whose broker flow ended with a status and whose task has
\* handled it
WithStatus == {i \in AuthRequests :
                 /\ requests[i].phase = "done"
                 /\ requests[i].outcome.status
                      \in {"Success", "UserCancel", "ErrorHttp", "Other"}}

\* C17: the broker's status decides the outcome: Success resolves with the
\* response data; UserCancel, ErrorHttp (with its HTTP code) and any other
\* status reject, each with its own reason; only Success resolves.
C17_StatusMapping ==
  /\ \A i \in WithStatus :
       LET o == requests[i].outcome
           pr == requests[i].promise
       IN  /\ pr.state = "resolved" <=> o.status = "Success"
           /\ pr.state = "rejected" <=> o.status # "Success"
           /\ o.status = "Success" => pr.value.text = o.responseData
           /\ o.status = "ErrorHttp" => pr.value.code = o.errorDetail
  /\ \A i \in WithStatus, j \in WithStatus :
       (requests[i].promise.value = requests[j].promise.value)
         <=> (requests[i].outcome = requests[j].outcome)

\* C17 happens: two flows ended in ErrorHttp with different codes and one in
\* Success
C17_Witness ==
  /\ \E i \in WithStatus, j \in WithStatus :
       /\ requests[i].outcome.status = "ErrorHttp" /\ requests[j].outcome.status = "ErrorHttp"
       /\ requests[i].promise.value.code = 404 /\ requests[j].promise.value.code = 500
  /\ \E i \in WithStatus : requests[i].promise.state = "resolved"

\* C18: every authenticate task that has run invoked the broker exactly once
\* before it settled its promise, whatever authUrl and callbackUrl are.
C18_BrokerExactlyOnce ==
  \A i \in AuthRequests : (Started(i) /\ requests[i].phase = "done") => BrokerCalls(i) = 1

\* C18 amended: an authenticate task invokes the broker at most once: exactly
\* once, before it settles, when authUrl and callbackUrl both parse as URIs,
\* and not at all when one of them does not (the task then rejects).
C18_BrokerOnceIfUrisValid ==
  \A i \in AuthRequests :
    /\ BrokerCalls(i) <= 1
    /\ (Started(i) /\ requests[i].urisValid) => BrokerCalls(i) = 1
    /\ (Started(i) /\ ~requests[i].urisValid)
         => BrokerCalls(i) = 0 /\ requests[i].promise.state = "rejected"
    /\ ~Started(i) => BrokerCalls(i) = 0

\* C18 happens: one task with an invalid URI rejected without a broker call,
\* another called the broker once and settled
C18_Witness ==
  /\ \E i \in AuthRequests :
       Started(i) /\ ~requests[i].urisValid /\ BrokerCalls(i) = 0
         /\ requests[i].promise.state = "rejected"
  /\ \E i \in AuthRequests :
       requests[i].phase = "done" /\ requests[i].urisValid /\ BrokerCalls(i) = 1

\* C19: a process whose CreateMutexW failed for a reason other than "already
\* exists" (it holds no mutex handle) is never treated as Primary.
C19_FailedCreationNotPrimary ==
  \A p \in Procs : (Live(p) /\ ~hMutex[p]) => ~isFirstInstance[p]

\* a Secondary in its hand-over: it has called, or is about to call,
\* WriteUrlToIpcFile and has not exited yet
HandingOver(p) == pc[p] \in {"write", "flush", "release", "notOpened"}

C21_LastWriterWins ==
  \A i \in 1..Len(callLog) :
    (/\ IsCall(i, "write") /\ callLog[i].ok
     /\ IsCall(i + 1, "write") /\ callLog[i + 1].ok /\ SingleLine(callLog[i + 1].arg)
     /\ IsCall(i + 2, "read") /\ callLog[i + 2].ok)
      => /\ callLog[i + 2].ret = callLog[i + 1].arg
         /\ (IsCall(i + 3, "read") => callLog[i + 3].ret = Empty)

\* the message of writer w is in the file, whole
HoldsMessage(w) ==
  ipcFile.exists /\ ipcFile.writer = w /\ WifstreamGetLine(ipcFile) = protocolUrl[w]

\* C22: end to end: with a Primary p running and no other process, a process
\* w launched with a deep link becomes Secondary and writes it; once it has
\* written, the URL is what the Primary's next checkForCallbackUrl returns
\* (it is in the file, or in the hands of a call that returns it), it is
\* returned once, and after that the file is gone so that the call after
\* returns empty.
C22_EndToEnd ==
  \A p \in Procs, w \in Procs :
    (/\ pc[p] = "running" /\ isFirstInstance[p] /\ hMutex[p]
     /\ pc[w] = "release"
     /\ \A r \in Procs : r \notin {p, w} => pc[r] = "idle")
      => /\ ~isFirstInstance[w] /\ protocolUrl[w] = UrlA
         /\ delivered[w] <= 1
         /\ delivered[w] = 0
              => \/ HoldsMessage(w)
                 \/ poll[p].src = w /\ poll[p].url = protocolUrl[w]
         /\ delivered[w] = 1 => ~ipcFile.exists

\* C23: a written message stays in the file until a read returns it or a later
\* write replaces it: whenever a message is deleted, it is deleted by the
\* checkForCallbackUrl call that read that very message and returns it.
C23_NoMessageLost ==
  [][(ipcFile.exists /\ ipcFile.bytes # <<>> /\ ~ipcFile'.exists)
       => \E p \in Procs :
            /\ poll[p].at = "closed" /\ poll'[p] = NoPoll
            /\ poll[p].src = ipcFile.writer
            /\ poll[p].url = WifstreamGetLine(ipcFile)]_vars

\* the call just made, when this step made one
NewCall(op) == Len(callLog') = Len(callLog) + 1 /\ callLog'[Len(callLog')].op = op

\* C24: a read() that finds the file absent, or cannot open it, returns empty
\* and changes nothing: an absent file stays absent (the read does not create
\* it), an unreadable one is not deleted, and no other state changes.
C24_AbsentReadReturnsNone ==
  [][(NewCall("read") /\ ~callLog'[Len(callLog')].ok)
       => /\ callLog'[Len(callLog')].ret = Empty
          /\ ipcFile' = ipcFile
          /\ ipcOpen' = ipcOpen
          /\ g_initialUrl' = g_initialUrl]_vars

\* C24 happens: a read found no file, and after a write a read could not open
\* the file: both returned empty and the written file is still there
C24_Witness ==
  /\ Len(callLog) = 3
  /\ IsCall(1, "read") /\ ~callLog[1].ok /\ callLog[1].ret = Empty
  /\ IsCall(2, "write") /\ callLog[2].ok /\ callLog[2].arg = UrlA
  /\ IsCall(3, "read") /\ ~callLog[3].ok /\ callLog[3].ret = Empty
  /\ ipcFile.exists /\ WifstreamGetLine(ipcFile) = UrlA /\ ipcFile.writer = 2

\* C25: the Primary role is released when the Primary process ends: a process
\* launched after the Primary has terminated, while no Primary is alive,
\* obtains Primary, whatever Secondary processes were launched meanwhile.
C25_RoleReleasedAtTermination ==
  [][\A p \in Procs :
       (/\ pc[p] = "idle" /\ pc'[p] # "idle"
        /\ \E q \in Procs : pc[q] = "dead" /\ isFirstInstance[q]
        /\ Primaries = {})
         => isFirstInstance'[p]]_vars

\* the broker flow of request i has ended
FlowEnded(i) ==
  /\ i \in AuthRequests
  /\ \/ requests[i].phase = "completed"
     \/ requests[i].phase = "done" /\ requests[i].outcome # NoOutcome

Settled(i) == i \in 1..Len(requests) /\ requests[i].promise.settles = 1

\* C26: no timeout and no cancellation: the promise of a dispatched
\* authenticate request is not settled before the broker flow of that request
\* has ended, and once the flow has ended the promise is eventually settled
\* (the execution context keeps running its tasks).
C26_SettledOnlyByBrokerEnd ==
  /\ [](\A i \in AuthRequests : (Dispatched(i) /\ Settled(i)) => FlowEnded(i))
  /\ \A i \in 1..MaxRequests : FlowEnded(i) ~> Settled(i)

\* C26 amended: the promise of a dispatched authenticate request whose URIs
\* parse (whose task starts a broker flow) is not settled before that flow
\* has ended, and once the flow has ended it is eventually settled; a task
\* whose authUrl or callbackUrl does not parse rejects without a broker flow.
C26_SettledOnlyByBrokerEndIfUrisValid ==
  /\ [](\A i \in AuthRequests :
          /\ (Dispatched(i) /\ requests[i].urisValid /\ Settled(i)) => FlowEnded(i)
          /\ (Dispatched(i) /\ ~requests[i].urisValid)
               => ~FlowEnded(i) /\ BrokerCalls(i) = 0
                    /\ (Settled(i) => requests[i].promise.state = "rejected"))
  /\ \A i \in 1..MaxRequests : FlowEnded(i) ~> Settled(i)

\* C26 happens: a broker flow has ended and the promise, pending until then,
\* has been settled from its result, while an earlier flow is still open and
\* its promise still pending
C26_Witness ==
  /\ Len(requests) >= 2
  /\ requests[1].kind = "authenticate" /\ requests[1].phase = "awaiting"
  /\ requests[1].promise = Pending
  /\ FlowEnded(2) /\ Settled(2) /\ requests[2].outcome.status = "Success"

\* C27: activation data that is malformed or partly missing (a kind other
\* than Protocol, a failed cast, a null URI, an exception from the OS call)
\* yields no URL and no fault reaches the caller of the handler: every
\* OnActivated call returns normally.
C27_MalformedNeverFaults ==
  /\ ~uwpFault
  /\ \A i \in 1..Len(callLog) : callLog[i].op = "OnActivated" => callLog[i].ok

\* process p starts: WinMain leaves its first line, or the window of the
\* UWP application receives its content
Startup(p) ==
  \/ pc[p] = "idle" /\ pc'[p] # "idle"
  \/ p = 1 /\ ~windowContent /\ windowContent'

\* C28: the pending initial URL of a process is written at most once, while
\* the process starts; afterwards it changes only by being cleared, never
\* through a later activation, a hand-off or a poll (a started application
\* stays started, so there is one start per process; the value ends with
\* the process).
C28_SlotWrittenOnceAtStartup ==
  [][/\ windowContent => windowContent'
     /\ \A p \in Procs :
          g_initialUrl'[p] # g_initialUrl[p]
            => \/ Startup(p)
               \/ pc[p] = "running" /\ pc'[p] = "dead"
               \/ /\ g_initialUrl'[p] = Empty
                  /\ ipcFile' = ipcFile /\ poll' = poll
                  /\ ~NewCall("OnActivated") /\ ~NewCall("read")]_vars

\* C28 happens: the first activation stored its URL, a later activation with
\* another URL and a poll followed, and the pending URL is still the first
C28_Witness ==
  /\ Len(callLog) >= 3
  /\ callLog[1].op = "OnActivated" /\ callLog[1].arg = UrlA
  /\ callLog[2].op = "OnActivated" /\ callLog[2].arg = UrlB
  /\ callLog[3].op = "read"
  /\ g_initialUrl[1] = UrlA

\* C29: g_mainDispatcherQueue is assigned once, while WinMain starts the
\* application and before any authenticate or getCallbackUri call, and never
\* changes afterwards; all dispatched requests run on one execution context.
C29_ContextWriteOnce ==
  /\ [][g_mainDispatcherQueue' # g_mainDispatcherQueue
          => ~appStarted /\ appStarted' /\ requests = <<>>]_vars
  /\ [](~appStarted => g_mainDispatcherQueue = "nullptr" /\ requests = <<>>)
  /\ [](\A i, j \in 1..Len(requests) :
          Dispatched(i) /\ Dispatched(j) => requests[i].thread = requests[j].thread)

\* C29 happens: the queue was captured and two requests were dispatched to it
\* from different threads, one of them already done
C29_Witness ==
  /\ g_mainDispatcherQueue = "main"
  /\ Len(requests) >= 2
  /\ requests[1].caller = "js" /\ requests[2].caller = "main"
  /\ Dispatched(1) /\ Dispatched(2)
  /\ requests[1].phase = "done"

InWritePath(p) == pc[p] \in {"write", "flush", "release", "notOpened"}

\* C31: the hand-off file is written only by a process that took the
\* Secondary role and extracted a URL: a Primary never enters
\* WriteUrlToIpcFile, nor does a process launched without a URL; WinMain's
\* start-up leaves the file as it is, so every change to the file is a write
\* step of such a Secondary or the delete that ends a checkForCallbackUrl
\* call of a running session.
C31_OnlySecondaryWithUrlWrites ==
  /\ [](\A p \in Procs :
          InWritePath(p) => ~isFirstInstance[p] /\ protocolUrl[p] # Empty)
  /\ [][/\ \A p \in Procs : (pc[p] = "idle" /\ pc'[p] # "idle") => ipcFile' = ipcFile
        /\ ipcFile' # ipcFile
             => \/ \E p \in Procs :
                     /\ pc[p] \in {"write", "flush"}
                     /\ ~isFirstInstance[p] /\ protocolUrl[p] # Empty
                     /\ ipcFile'.exists /\ ipcFile'.writer = p
                \/ \E p \in Procs :
                     /\ pc[p] = "running" /\ poll[p].at = "closed" /\ poll'[p] = NoPoll
                     /\ ~ipcFile'.exists]_vars

\* C31 happens: a Secondary with a URL wrote the file and left; after that a
\* launch without a URL (here one that found the mutex and runs on) took
\* place, and the message is still in the file
C31_Witness ==
  /\ pc[1] = "running" /\ isFirstInstance[1]
  /\ pc[2] = "exited"
  /\ pc[3] = "running" /\ ~isFirstInstance[3] /\ g_initialUrl[3] = Empty
  /\ poll[1] = NoPoll /\ poll[3] = NoPoll
  /\ ipcFile.exists /\ ipcFile.writer = 2 /\ ipcFile.bytes = WofstreamEncode(UrlA)

\* C32: the two URL channels are independent: getInitialURL and
\* clearInitialURL leave the hand-off file as it is, checkForCallbackUrl
\* leaves the pending initial URL as it is, and getInitialURL returns the
\* pending initial URL whatever the file holds.
C32_ChannelsIndependent ==
  [][/\ (NewCall("getInitial") \/ NewCall("clearInitial"))
          => ipcFile' = ipcFile /\ ipcOpen' = ipcOpen
     /\ NewCall("read") => g_initialUrl' = g_initialUrl
     /\ NewCall("getInitial") => callLog'[Len(callLog')].ret = g_initialUrl[1]]_vars

\* C32 happens: with a URL handed over in the file, getInitialURL returned the
\* pending initial URL, clearInitialURL cleared it, and the read that followed
\* still returned the URL handed over
C32_Witness ==
  /\ Len(callLog) = 4
  /\ callLog[1].op = "write" /\ callLog[1].arg = UrlA /\ callLog[1].ok
  /\ callLog[2].op = "getInitial" /\ callLog[2].ret = UrlB
  /\ callLog[3].op = "clearInitial"
  /\ callLog[4].op = "read" /\ callLog[4].ret = UrlA
  /\ g_initialUrl[1] = Empty

====
